---- MODULE Spec2Model ----
(***************************************************************************)
(* A model of gitdata/exectools.py: the bounded retry loop (Exec.retry),   *)
(* the run-and-verify loop (Exec.check_assert) and the process primitive   *)
(* (Exec.gather).  One call of one of the three entry points is followed   *)
(* statement by statement; the environment decides what each launched      *)
(* process and each callback does.                                         *)
(*                                                                         *)
(* Python values are represented as follows.  A str is the tuple of its    *)
(* characters, so that shlex.split can be computed.  None and an unbound   *)
(* local are the empty tuple, a bound value v is the one-element tuple     *)
(* <<v>>.  The bytes a process writes and the values a task returns are    *)
(* opaque tokens.                                                          *)
(***************************************************************************)
EXTENDS Integers, Sequences, FiniteSets, TLC

\* ------------------------------------------------------------------ bounds
\* The largest retries argument a call is given.
MaxRetries == 3

\* ------------------------------------------------------- program constants
SUCCESS == 0

\* ------------------------------------------------------------ value spaces
None == <<>>
Unbound == <<>>
Some(v) == <<v>>
IsBound(x) == Len(x) = 1
Val(x) == x[1]

StrCmd(chars) == [kind |-> "str", v |-> chars]
ListCmd(argv) == [kind |-> "list", v |-> argv]
NoCmd == ListCmd(<<>>)

\* "a\tb\n", ["a", "b"], and the blank string " \r " (no executable at all).
Cmds == {StrCmd(<<"a", "\t", "b", "\n">>), ListCmd(<< <<"a">>, <<"b">> >>),
         StrCmd(<<" ", "\r", " ">>)}
\* on_retry: None, or "c".
OnRetryCmds == {None, Some(StrCmd(<<"c">>))}
Pollrates == {0, 60}
Dirs == {"/w1", "/w2"}
\* retries: any int; range() is empty for zero and for negative ones.
RetriesArgs == (-1)..MaxRetries

\* What a process that runs can do: (returncode, stdout, stderr).
Results ==
    { [rc |-> 0, out |-> "o1", err |-> "e1"],
      [rc |-> 0, out |-> "o2", err |-> "e2"],
      [rc |-> 1, out |-> "o1", err |-> "e2"],
      [rc |-> 2, out |-> "o2", err |-> "e1"] }

\* ---------------------------------------------------------------- helpers
\* shlex.whitespace: blank, tab, carriage return, newline.
Whitespace == {" ", "\t", "\r", "\n"}

\* shlex.split on strings without quote, escape or comment characters:
\* maximal runs of non-whitespace characters, in order.
RECURSIVE ShlexScan(_, _, _)
ShlexScan(chars, token, tokens) ==
    IF chars = <<>>
    THEN IF token = <<>> THEN tokens ELSE Append(tokens, token)
    ELSE IF Head(chars) \in Whitespace
         THEN ShlexScan(Tail(chars), <<>>,
                        IF token = <<>> THEN tokens ELSE Append(tokens, token))
         ELSE ShlexScan(Tail(chars), Append(token, Head(chars)), tokens)

ShlexSplit(chars) == ShlexScan(chars, <<>>, <<>>)

\* gather, lines 98-101: a list is used as it is, anything else is split.
CmdList(c) == IF c.kind # "list" THEN ShlexSplit(c.v) ELSE c.v

VARIABLES
    pc,        \* the statement the call is at
    op,        \* the entry point called: "none", "gather", "check_assert", "retry"
    dir,       \* what pushd.Dir.getcwd() returns in this context
    cmd, retries, pollrate, on_retry,   \* arguments of check_assert / gather
    check_f, wait_f,                    \* arguments of retry
    ca,        \* locals of check_assert
    rt,        \* locals of retry
    g,         \* the frame of the gather call in progress
    gres,      \* the value the last gather call returned
    procs,     \* every subprocess.Popen call, of either context, in order
    sleeps,    \* every time.sleep call, in order
    log,       \* every record given to the logger both contexts share, in order
    acalls,    \* every assertion.success call, in order
    tcalls, ccalls, wcalls,  \* every task_f, check_f, wait_f call, in order
    trace,     \* the kinds of all the events above, in one order
    outcome,   \* how the call ended
    dreads,    \* every pushd.Dir.getcwd() call of this context, in order
    oscwd,     \* the current directory of the operating-system process
    other      \* another execution context, with a directory of its own, and
               \* its gather call

vars == <<pc, op, dir, cmd, retries, pollrate, on_retry, check_f, wait_f, ca, rt,
          g, gres, procs, sleeps, log, acalls, tcalls, ccalls, wcalls, trace, outcome,
          dreads, oscwd, other>>

argVars == <<cmd, retries, pollrate, on_retry, check_f, wait_f>>
retryHist == <<tcalls, ccalls, wcalls>>
procHist == <<procs, sleeps, acalls>>
\* What no statement of Exec assigns: the directory context of the caller,
\* the directory of the process, the other context.
ctxVars == <<dir, oscwd, other>>

NoOutcome == [kind |-> "none"]
\* check_assert with its locals given values before the loop.
CaInit_Preset == [it |-> 0, try_num |-> <<0>>, result |-> <<1>>,
                  stdout |-> <<"">>, stderr |-> <<"">>]
CaInit == [it |-> 0, try_num |-> Unbound, result |-> Unbound,
           stdout |-> Unbound, stderr |-> Unbound]
RtInit == [it |-> 0, attempt |-> Unbound, ret |-> Unbound]
\* proc is the place in procs of the Popen object of the call, 0 before there
\* is one.
NoFrame == [role |-> "none", cmd |-> NoCmd, cmd_list |-> <<>>, cwd |-> "", proc |-> 0]

Init ==
    /\ pc = "idle"
    /\ op = "none"
    /\ dir \in Dirs
    /\ cmd = NoCmd
    /\ retries = 0
    /\ pollrate = 0
    /\ on_retry = None
    /\ check_f = "bool"
    /\ wait_f = None
    /\ ca = CaInit
    /\ rt = RtInit
    /\ g = NoFrame
    /\ gres = Unbound
    /\ procs = <<>>
    /\ sleeps = <<>>
    /\ log = <<>>
    /\ acalls = <<>>
    /\ tcalls = <<>>
    /\ ccalls = <<>>
    /\ wcalls = <<>>
    /\ trace = <<>>
    /\ outcome = NoOutcome
    /\ dreads = <<>>
    /\ oscwd \in Dirs
    /\ other = [pc |-> "idle", dir |-> dir, cmd |-> NoCmd, cmd_list |-> <<>>,
                cwd |-> "", proc |-> 0, launched |-> "", outcome |-> NoOutcome]

\* An exception nobody catches ends the call.
Raised(exc, detail) == [kind |-> "raise", exc |-> exc, detail |-> detail]
Returned(value) == [kind |-> "return", value |-> value]

\* ------------------------------------------------------------------ gather
\* The statement a finished gather call returns to.
ReturnSite(role) ==
    CASE role = "cmd" -> "ca_assign"
      [] role = "on_retry" -> "ca_gather"
      [] OTHER -> "g_return"

\* Lines 98-106: normalise the command, read the directory context once, log.
GatherEnter(role, c) ==
    LET cmd_list == CmdList(c)
        cwd == dir
    IN /\ g' = [role |-> role, cmd |-> c, cmd_list |-> cmd_list, cwd |-> cwd,
                proc |-> 0]
       /\ log' = Append(log, [level |-> "debug", fmt |-> "Executing:gather",
                              cwd |-> cwd, cmd_list |-> cmd_list])
       /\ dreads' = Append(dreads, [by |-> "gather", value |-> cwd,
                                    launches |-> Len(procs), logged |-> Len(log)])
       /\ trace' = Append(trace, "debug:executing")
       /\ pc' = "g_popen"

\* gather with stdout and stderr handed back in the wrong order.
GatherReturn_Swapped(rc, out, err) == <<rc, err, out>>

\* Popen without the cwd argument: the child starts where the process is.
PopenCwd_Inherited(cwd, ambient) == ambient

\* Line 108: Popen(cmd_list, cwd=cwd, ...) starts the child in cwd, whatever
\* the current directory of the process is.
PopenCwd(cwd, ambient) == cwd

\* The triple gather hands back, line 115.
GatherReturn(rc, out, err) == <<rc, out, err>>

\* What a launch that fails raises: Popen reads args[0] of an empty list,
\* and the operating system refuses anything else it cannot start.
LaunchError(cmd_list) == IF cmd_list = <<>> THEN "IndexError" ELSE "OSError"

\* gather with a handler around Popen that turns a launch failure into an
\* ordinary result with status 127.
G_Popen_Swallow ==
    /\ pc = "g_popen"
    /\ \E ok \in BOOLEAN :
        /\ (g.cmd_list = <<>>) => ~ok
        /\ procs' = Append(procs, [role |-> g.role, args |-> g.cmd_list,
                                   cwd |-> PopenCwd(g.cwd, oscwd),
                                   state |-> IF ok THEN "running" ELSE "failed",
                                   rc |-> -1, out |-> "", err |-> ""])
        /\ IF ok
           THEN /\ trace' = Append(trace, "launch")
                /\ pc' = "g_communicate"
                /\ g' = [g EXCEPT !.proc = Len(procs) + 1]
                /\ gres' = gres
           ELSE /\ trace' = Append(trace, "launch_failed")
                /\ pc' = ReturnSite(g.role)
                /\ g' = g
                /\ gres' = Some(<<127, "", "">>)
    /\ UNCHANGED <<op, ctxVars, dreads, argVars, ca, rt, sleeps, log, acalls, retryHist, outcome>>

\* Lines 107-109: subprocess.Popen.  An empty argument list cannot be launched;
\* any other launch fails or succeeds as the environment decides.  gather has
\* no handler, and neither has check_assert: the failure ends the call.
G_Popen ==
    /\ pc = "g_popen"
    /\ \E ok \in BOOLEAN :
        /\ (g.cmd_list = <<>>) => ~ok
        /\ procs' = Append(procs, [role |-> g.role, args |-> g.cmd_list,
                                   cwd |-> PopenCwd(g.cwd, oscwd),
                                   state |-> IF ok THEN "running" ELSE "failed",
                                   rc |-> -1, out |-> "", err |-> ""])
        /\ IF ok
           THEN /\ trace' = Append(trace, "launch")
                /\ pc' = "g_communicate"
                /\ g' = [g EXCEPT !.proc = Len(procs) + 1]
                /\ outcome' = outcome
           ELSE /\ trace' = Append(trace, "launch_failed")
                /\ pc' = "done"
                /\ g' = g
                /\ outcome' = Raised(LaunchError(g.cmd_list), <<>>)
    /\ UNCHANGED <<op, ctxVars, dreads, argVars, ca, rt, gres, sleeps, log, acalls, retryHist>>

\* gather asking the directory context again for its second log record.
G_Communicate_Rereads ==
    /\ pc = "g_communicate"
    /\ \E r \in Results :
        /\ procs' = [procs EXCEPT ![g.proc] =
                        [@ EXCEPT !.state = "exited", !.rc = r.rc, !.out = r.out,
                                  !.err = r.err]]
        /\ log' = Append(log, [level |-> "debug", fmt |-> "Process exited",
                               cwd |-> dir, cmd_list |-> g.cmd_list,
                               rc |-> r.rc, out |-> r.out, err |-> r.err])
        /\ gres' = Some(GatherReturn(r.rc, r.out, r.err))
    /\ dreads' = Append(dreads, [by |-> "gather", value |-> dir,
                                 launches |-> Len(procs), logged |-> Len(log)])
    /\ trace' = trace \o <<"exit", "debug:exited">>
    /\ pc' = ReturnSite(g.role)
    /\ UNCHANGED <<op, ctxVars, argVars, ca, rt, g, sleeps, acalls, retryHist, outcome>>

\* gather without its second log record.
G_Communicate_Silent ==
    /\ pc = "g_communicate"
    /\ \E r \in Results :
        /\ procs' = [procs EXCEPT ![g.proc] =
                        [@ EXCEPT !.state = "exited", !.rc = r.rc, !.out = r.out,
                                  !.err = r.err]]
        /\ gres' = Some(GatherReturn(r.rc, r.out, r.err))
    /\ trace' = Append(trace, "exit")
    /\ pc' = ReturnSite(g.role)
    /\ UNCHANGED <<op, ctxVars, dreads, argVars, ca, rt, g, sleeps, log, acalls,
                   retryHist, outcome>>

\* Lines 110-115: wait for the process, log what it did, return the triple.
G_Communicate ==
    /\ pc = "g_communicate"
    /\ \E r \in Results :
        /\ procs' = [procs EXCEPT ![g.proc] =
                        [@ EXCEPT !.state = "exited", !.rc = r.rc, !.out = r.out,
                                  !.err = r.err]]
        /\ log' = Append(log, [level |-> "debug", fmt |-> "Process exited",
                               cwd |-> g.cwd, cmd_list |-> g.cmd_list,
                               rc |-> r.rc, out |-> r.out, err |-> r.err])
        /\ gres' = Some(GatherReturn(r.rc, r.out, r.err))
    /\ trace' = trace \o <<"exit", "debug:exited">>
    /\ pc' = ReturnSite(g.role)
    /\ UNCHANGED <<op, ctxVars, dreads, argVars, ca, rt, g, sleeps, acalls, retryHist, outcome>>

\* A direct call of gather(c).
CallGather ==
    /\ pc = "idle"
    /\ \E c \in Cmds :
        /\ cmd' = c
        /\ GatherEnter("top", c)
    /\ op' = "gather"
    /\ UNCHANGED <<ctxVars, retries, pollrate, on_retry, check_f, wait_f, ca, rt, gres,
                   procHist, retryHist, outcome>>

\* The direct caller of gather receives the triple.
G_Return ==
    /\ pc = "g_return"
    /\ outcome' = Returned(Val(gres))
    /\ pc' = "done"
    /\ UNCHANGED <<op, ctxVars, dreads, argVars, ca, rt, g, gres, procHist, log, retryHist, trace>>

\* ------------------------------------------------------------ check_assert
\* A loop that runs one attempt too many.
RangeHasNext_OffByOne(it, n) == it <= n

\* A loop with twice the budget.
RangeHasNext_Doubled(it, n) == it < 2 * n

\* A loop that tests its bound only after the first attempt.
RangeHasNext_AtLeastOnce(it, n) == it < n \/ it = 0

\* range(0, retries) and range(retries), lines 64 and 43: the iterator yields
\* its position while it is below the bound.
RangeHasNext(it, n) == it < n

\* A retry step that also precedes the first attempt.
IsRetryAttempt_Always(try_num) == try_num >= 0

\* Line 65: every attempt but the first is preceded by the retry step.
IsRetryAttempt(try_num) == try_num > 0

\* A loop without the break.
IsSuccess_Never(result) == FALSE

\* Line 74.
IsSuccess(result) == result = SUCCESS

\* Line 77: the number the final log record reports as "tries".
FinalLogTries(try_num) == try_num

\* assertion.success(exitcode, msg) raises when the exit code is not zero.
AssertionSuccessRaises(exitcode) == exitcode # 0

\* A call check_assert(cmd, retries, pollrate, on_retry).
CallCheckAssert ==
    /\ pc = "idle"
    /\ cmd' \in Cmds
    /\ retries' \in RetriesArgs
    /\ pollrate' \in Pollrates
    /\ on_retry' \in OnRetryCmds
    /\ op' = "check_assert"
    /\ pc' = "ca_for"
    /\ UNCHANGED <<ctxVars, dreads, check_f, wait_f, ca, rt, g, gres, procHist, log, retryHist,
                   trace, outcome>>

\* Line 64: the for statement takes the next try_num, or the loop is over.
\* Line 65: the first attempt skips the retry step.
CA_For ==
    /\ pc = "ca_for"
    /\ IF RangeHasNext(ca.it, retries)
       THEN /\ ca' = [ca EXCEPT !.try_num = Some(ca.it), !.it = ca.it + 1]
            /\ pc' = IF IsRetryAttempt(ca.it) THEN "ca_retry" ELSE "ca_gather"
       ELSE /\ ca' = ca
            /\ pc' = "ca_final"
    /\ UNCHANGED <<op, ctxVars, dreads, argVars, rt, g, gres, procHist, log, retryHist, trace,
                   outcome>>

\* check_assert sleeping before it logs the retry notice.
CA_Retry_SleepFirst ==
    /\ pc = "ca_retry"
    /\ log' = Append(log, [level |-> "debug", fmt |-> "assert: Failed",
                           times |-> Val(ca.try_num), pollrate |-> pollrate,
                           cmd |-> cmd])
    /\ sleeps' = Append(sleeps, pollrate)
    /\ trace' = trace \o <<"sleep", "debug:retry">>
    /\ pc' = IF on_retry # None THEN "ca_on_retry" ELSE "ca_gather"
    /\ UNCHANGED <<op, ctxVars, dreads, argVars, ca, rt, g, gres, procs, acalls,
                   retryHist, outcome>>

\* Lines 66-70: the retry notice, then the sleep.
CA_Retry ==
    /\ pc = "ca_retry"
    /\ log' = Append(log, [level |-> "debug", fmt |-> "assert: Failed",
                           times |-> Val(ca.try_num), pollrate |-> pollrate,
                           cmd |-> cmd])
    /\ sleeps' = Append(sleeps, pollrate)
    /\ trace' = trace \o <<"debug:retry", "sleep">>
    /\ pc' = IF on_retry # None THEN "ca_on_retry" ELSE "ca_gather"
    /\ UNCHANGED <<op, ctxVars, dreads, argVars, ca, rt, g, gres, procs, acalls, retryHist,
                   outcome>>

\* Line 71: gather(on_retry); what it returns is dropped.
CA_OnRetry ==
    /\ pc = "ca_on_retry"
    /\ GatherEnter("on_retry", Val(on_retry))
    /\ UNCHANGED <<op, ctxVars, argVars, ca, rt, gres, procHist, retryHist, outcome>>

\* check_assert leaving the loop when the on_retry command exits non-zero.
CA_Gather_ChecksOnRetry ==
    /\ pc = "ca_gather"
    /\ IF /\ procs # <<>>
          /\ procs[Len(procs)].role = "on_retry"
          /\ procs[Len(procs)].rc # SUCCESS
       THEN /\ pc' = "ca_final"
            /\ UNCHANGED <<g, log, trace, dreads>>
       ELSE GatherEnter("cmd", cmd)
    /\ UNCHANGED <<op, ctxVars, argVars, ca, rt, gres, procHist, retryHist, outcome>>

\* Line 73, the call: gather(cmd).
CA_Gather ==
    /\ pc = "ca_gather"
    /\ GatherEnter("cmd", cmd)
    /\ UNCHANGED <<op, ctxVars, argVars, ca, rt, gres, procHist, retryHist, outcome>>

\* check_assert keeping the stderr of the first attempt.
CA_Assign_KeepFirst ==
    /\ pc = "ca_assign"
    /\ LET t == Val(gres)
       IN /\ ca' = [ca EXCEPT !.result = Some(t[1]), !.stdout = Some(t[2]),
                              !.stderr = IF IsBound(ca.stderr) THEN ca.stderr
                                         ELSE Some(t[3])]
          /\ pc' = IF t[1] = SUCCESS THEN "ca_final" ELSE "ca_for"
    /\ UNCHANGED <<op, ctxVars, dreads, argVars, rt, g, gres, procHist, log, retryHist, trace,
                   outcome>>

\* Line 73, the assignment, and lines 74-75: success leaves the loop.
CA_Assign ==
    /\ pc = "ca_assign"
    /\ LET t == Val(gres)
       IN /\ ca' = [ca EXCEPT !.result = Some(t[1]), !.stdout = Some(t[2]),
                              !.stderr = Some(t[3])]
          /\ pc' = IF IsSuccess(t[1]) THEN "ca_final" ELSE "ca_for"
    /\ UNCHANGED <<op, ctxVars, dreads, argVars, rt, g, gres, procHist, log, retryHist, trace,
                   outcome>>

\* Line 77: the final log record.  result and try_num are locals that only
\* the loop body binds.
CA_Final ==
    /\ pc = "ca_final"
    /\ IF IsBound(ca.result) /\ IsBound(ca.try_num)
       THEN /\ log' = Append(log, [level |-> "debug", fmt |-> "assert: Final result",
                                   result |-> Val(ca.result),
                                   tries |-> FinalLogTries(Val(ca.try_num))])
            /\ trace' = Append(trace, "debug:final")
            /\ pc' = "ca_assert"
            /\ outcome' = outcome
       ELSE /\ log' = log
            /\ trace' = trace
            /\ pc' = "done"
            /\ outcome' = Raised("UnboundLocalError", <<>>)
    /\ UNCHANGED <<op, ctxVars, dreads, argVars, ca, rt, g, gres, procHist, retryHist>>

\* Lines 79-84: the message is built from the directory context, the command
\* and stderr; assertion.success raises with it or returns; then the return.
CA_Assert ==
    /\ pc = "ca_assert"
    /\ LET msg == [fmt |-> "Error running", cwd |-> dir, cmd |-> cmd,
                   stderr |-> Val(ca.stderr)]
       IN /\ acalls' = Append(acalls, [exitcode |-> Val(ca.result), msg |-> msg])
          /\ dreads' = Append(dreads, [by |-> "check_assert", value |-> dir,
                                       launches |-> Len(procs), logged |-> Len(log)])
          /\ outcome' = IF AssertionSuccessRaises(Val(ca.result))
                        THEN Raised("AssertionFailure", msg)
                        ELSE Returned(<<Val(ca.stdout), Val(ca.stderr)>>)
    /\ trace' = Append(trace, "assert")
    /\ pc' = "done"
    /\ UNCHANGED <<op, ctxVars, argVars, ca, rt, g, gres, procs, sleeps, log, retryHist>>

\* ------------------------------------------------------------------- retry
\* What task_f may return.
TaskValues == {"None", "False", "0", "''", "1", "'ok'"}

\* A test for None in the place of bool.
Truthy_NotNone(v) == v # "None"

\* bool(x): None, False, zero and the empty string are false.
Truthy(v) == v \notin {"None", "False", "0", "''"}

\* Line 33: the predicate of a call that names none.
DefaultCheckF == "bool"

\* The predicates retry is called with: the default, bool, and
\* lambda r: r == 0.
CheckFs == {DefaultCheckF, "is_zero"}
\* r == 0 holds of 0 and of False (bool is a subclass of int, False == 0),
\* of no other value here.
EqualsZero(v) == v \in {"0", "False"}
ApplyCheck(f, v) == IF f = "bool" THEN Truthy(v) ELSE EqualsZero(v)

\* wait_f: None, or a callable.
WaitFs == {None, Some("wait")}

\* A wait that is not skipped after the last attempt.
ShouldWait_AlsoLast(attempt, n, w) == w # None

\* Line 47.
ShouldWait(attempt, n, w) == attempt < n - 1 /\ w # None

\* A call retry(retries, task_f, check_f, wait_f).
CallRetry ==
    /\ pc = "idle"
    /\ retries' \in RetriesArgs
    /\ check_f' \in CheckFs
    /\ wait_f' \in WaitFs
    /\ op' = "retry"
    /\ pc' = "r_for"
    /\ UNCHANGED <<ctxVars, dreads, cmd, pollrate, on_retry, ca, rt, g, gres, procHist, log,
                   retryHist, trace, outcome>>

\* Line 43.
R_For ==
    /\ pc = "r_for"
    /\ IF RangeHasNext(rt.it, retries)
       THEN /\ rt' = [rt EXCEPT !.attempt = Some(rt.it), !.it = rt.it + 1]
            /\ pc' = "r_task"
       ELSE /\ rt' = rt
            /\ pc' = "r_raise"
    /\ UNCHANGED <<op, ctxVars, dreads, argVars, ca, g, gres, procHist, log, retryHist, trace,
                   outcome>>

\* retry with a handler that takes an exception of task_f for a failed
\* attempt.
R_Task_RetriesOnError ==
    /\ pc = "r_task"
    /\ \/ \E v \in TaskValues :
            /\ tcalls' = Append(tcalls, [raised |-> FALSE, ret |-> v])
            /\ rt' = [rt EXCEPT !.ret = Some(v)]
            /\ pc' = "r_check"
       \/ /\ tcalls' = Append(tcalls, [raised |-> TRUE, ret |-> ""])
          /\ rt' = rt
          /\ pc' = "r_wait"
    /\ outcome' = outcome
    /\ trace' = Append(trace, "task_f")
    /\ UNCHANGED <<op, ctxVars, dreads, argVars, ca, g, gres, procHist, log, ccalls,
                   wcalls>>

\* Line 44: task_f returns a value or raises.
R_Task ==
    /\ pc = "r_task"
    /\ \/ \E v \in TaskValues :
            /\ tcalls' = Append(tcalls, [raised |-> FALSE, ret |-> v])
            /\ rt' = [rt EXCEPT !.ret = Some(v)]
            /\ pc' = "r_check"
            /\ outcome' = outcome
       \/ /\ tcalls' = Append(tcalls, [raised |-> TRUE, ret |-> ""])
          /\ rt' = rt
          /\ pc' = "done"
          /\ outcome' = Raised("TaskError", <<>>)
    /\ trace' = Append(trace, "task_f")
    /\ UNCHANGED <<op, ctxVars, dreads, argVars, ca, g, gres, procHist, log, ccalls, wcalls>>

\* retry returning the verdict of check_f instead of the task's result.
R_Check_ReturnsVerdict ==
    /\ pc = "r_check"
    /\ \/ /\ ccalls' = Append(ccalls, [raised |-> FALSE, arg |-> Val(rt.ret),
                                       res |-> ApplyCheck(check_f, Val(rt.ret))])
          /\ IF ApplyCheck(check_f, Val(rt.ret))
             THEN /\ pc' = "done"
                  /\ outcome' = Returned("True")
             ELSE /\ pc' = "r_wait"
                  /\ outcome' = outcome
       \/ /\ ccalls' = Append(ccalls, [raised |-> TRUE, arg |-> Val(rt.ret),
                                       res |-> FALSE])
          /\ pc' = "done"
          /\ outcome' = Raised("CheckError", <<>>)
    /\ trace' = Append(trace, "check_f")
    /\ UNCHANGED <<op, ctxVars, dreads, argVars, ca, rt, g, gres, procHist, log, tcalls, wcalls>>

\* Lines 45-46: check_f decides; an accepted result is returned at once.
R_Check ==
    /\ pc = "r_check"
    /\ \/ /\ ccalls' = Append(ccalls, [raised |-> FALSE, arg |-> Val(rt.ret),
                                       res |-> ApplyCheck(check_f, Val(rt.ret))])
          /\ IF ApplyCheck(check_f, Val(rt.ret))
             THEN /\ pc' = "done"
                  /\ outcome' = Returned(Val(rt.ret))
             ELSE /\ pc' = "r_wait"
                  /\ outcome' = outcome
       \/ /\ ccalls' = Append(ccalls, [raised |-> TRUE, arg |-> Val(rt.ret),
                                       res |-> FALSE])
          /\ pc' = "done"
          /\ outcome' = Raised("CheckError", <<>>)
    /\ trace' = Append(trace, "check_f")
    /\ UNCHANGED <<op, ctxVars, dreads, argVars, ca, rt, g, gres, procHist, log, tcalls, wcalls>>

\* wait_f given the number of attempts made instead of the index.
WaitArg_OneBased(attempt) == attempt + 1

\* Line 48: the argument of wait_f.
WaitArg(attempt) == attempt

\* Lines 47-48: wait_f(attempt), unless this was the last attempt or there is
\* no wait_f; wait_f returns or raises.
R_Wait ==
    /\ pc = "r_wait"
    /\ IF ShouldWait(Val(rt.attempt), retries, wait_f)
       THEN /\ trace' = Append(trace, "wait_f")
            /\ \/ /\ wcalls' = Append(wcalls, [raised |-> FALSE, arg |-> WaitArg(Val(rt.attempt))])
                  /\ pc' = "r_for"
                  /\ outcome' = outcome
               \/ /\ wcalls' = Append(wcalls, [raised |-> TRUE, arg |-> WaitArg(Val(rt.attempt))])
                  /\ pc' = "done"
                  /\ outcome' = Raised("WaitError", <<>>)
       ELSE /\ trace' = trace
            /\ wcalls' = wcalls
            /\ pc' = "r_for"
            /\ outcome' = outcome
    /\ UNCHANGED <<op, ctxVars, dreads, argVars, ca, rt, g, gres, procHist, log, tcalls, ccalls>>

\* Line 49.
R_Raise ==
    /\ pc = "r_raise"
    /\ outcome' = Raised("RetryException", retries)
    /\ pc' = "done"
    /\ UNCHANGED <<op, ctxVars, dreads, argVars, ca, rt, g, gres, procHist, log, retryHist, trace>>

\* ------------------------------------------------------------ environment
\* Some thread changes the current directory of the process (os.chdir) while
\* the call is in progress.
OsChdir ==
    /\ pc \notin {"idle", "done"}
    /\ oscwd' \in Dirs \ {oscwd}
    /\ UNCHANGED <<pc, op, dir, argVars, ca, rt, g, gres, procHist, log, retryHist,
                   trace, outcome, dreads, other>>

\* What a step of the other context leaves alone in this one: all but the
\* logger, the Popen calls and the order of events.
mainVars == <<pc, op, dir, argVars, ca, rt, g, gres, sleeps, acalls, retryHist, outcome,
              dreads>>

\* The other context enters or leaves a directory of its own, between its
\* calls.
O_Chdir ==
    /\ other.pc = "idle"
    /\ \E d \in Dirs \ {other.dir} : other' = [other EXCEPT !.dir = d]
    /\ UNCHANGED <<mainVars, procs, log, trace, oscwd>>

\* The other context calls gather(c): lines 98-106 there, with its own
\* directory context and the logger of this one (logging.getLogger(), line
\* 29, is the same object for every Exec that names none).
O_GatherEnter ==
    /\ other.pc = "idle"
    /\ \E c \in Cmds :
        LET cmd_list == CmdList(c)
            cwd == other.dir
        IN /\ other' = [other EXCEPT !.pc = "g_popen", !.cmd = c,
                                     !.cmd_list = cmd_list, !.cwd = cwd]
           /\ log' = Append(log, [level |-> "debug", fmt |-> "Executing:gather",
                                  cwd |-> cwd, cmd_list |-> cmd_list])
    /\ trace' = Append(trace, "debug:executing")
    /\ UNCHANGED <<mainVars, procs, oscwd>>

\* Lines 107-109 in the other context: the launch, or the failure that ends
\* its call.
O_Popen ==
    /\ other.pc = "g_popen"
    /\ \E ok \in BOOLEAN :
        /\ (other.cmd_list = <<>>) => ~ok
        /\ procs' = Append(procs, [role |-> "other", args |-> other.cmd_list,
                                   cwd |-> PopenCwd(other.cwd, oscwd),
                                   state |-> IF ok THEN "running" ELSE "failed",
                                   rc |-> -1, out |-> "", err |-> ""])
        /\ IF ok
           THEN /\ trace' = Append(trace, "launch")
                /\ other' = [other EXCEPT !.pc = "g_communicate",
                                          !.proc = Len(procs) + 1,
                                          !.launched = PopenCwd(other.cwd, oscwd)]
           ELSE /\ trace' = Append(trace, "launch_failed")
                /\ other' = [other EXCEPT !.pc = "done",
                                          !.outcome = Raised(LaunchError(other.cmd_list),
                                                             <<>>)]
    /\ UNCHANGED <<mainVars, log, oscwd>>

\* Lines 110-115 in the other context: its process exits, it logs what the
\* process did and returns the triple.
O_Communicate ==
    /\ other.pc = "g_communicate"
    /\ \E r \in Results :
        /\ procs' = [procs EXCEPT ![other.proc] =
                        [@ EXCEPT !.state = "exited", !.rc = r.rc, !.out = r.out,
                                  !.err = r.err]]
        /\ log' = Append(log, [level |-> "debug", fmt |-> "Process exited",
                               cwd |-> other.cwd, cmd_list |-> other.cmd_list,
                               rc |-> r.rc, out |-> r.out, err |-> r.err])
        /\ other' = [other EXCEPT !.pc = "done",
                                  !.outcome = Returned(GatherReturn(r.rc, r.out, r.err))]
    /\ trace' = trace \o <<"exit", "debug:exited">>
    /\ UNCHANGED <<mainVars, oscwd>>

\* The steps of the call itself.
Step ==
    \/ CallGather
    \/ G_Popen
    \/ G_Communicate
    \/ G_Return
    \/ CallCheckAssert
    \/ CA_For
    \/ CA_Retry
    \/ CA_OnRetry
    \/ CA_Gather
    \/ CA_Assign
    \/ CA_Final
    \/ CA_Assert
    \/ CallRetry
    \/ R_For
    \/ R_Task
    \/ R_Check
    \/ R_Wait
    \/ R_Raise

Next ==
    \/ CallGather
    \/ G_Popen
    \/ G_Communicate
    \/ G_Return
    \/ CallCheckAssert
    \/ CA_For
    \/ CA_Retry
    \/ CA_OnRetry
    \/ CA_Gather
    \/ CA_Assign
    \/ CA_Final
    \/ CA_Assert
    \/ CallRetry
    \/ R_For
    \/ R_Task
    \/ R_Check
    \/ R_Wait
    \/ R_Raise
    \/ OsChdir

Spec == Init /\ [][Next]_vars

\* Every started process exits, every sleep ends, every callback returns or
\* raises, and the caller makes its call: a step of the call that can be
\* taken is taken.
FairSpec == Spec /\ WF_vars(Step)

\* Two contexts, each with a directory of its own, calling gather at the same
\* time, while the directory of the process changes.
NextConc ==
    \/ CallGather
    \/ G_Popen
    \/ G_Communicate
    \/ G_Return
    \/ OsChdir
    \/ O_Chdir
    \/ O_GatherEnter
    \/ O_Popen
    \/ O_Communicate

SpecConc == Init /\ [][NextConc]_vars

\* ===================================================================
\* Properties
\* ===================================================================
IsCmdRun(p) == p.role = "cmd"
IsOnRetryRun(p) == p.role = "on_retry"
\* The runs of the command and of the on_retry command, in order.
CmdRuns == SelectSeq(procs, IsCmdRun)
OnRetryRuns == SelectSeq(procs, IsOnRetryRun)
LastCmdRun == CmdRuns[Len(CmdRuns)]
NoLaunchFailure == \A i \in 1..Len(procs) : procs[i].state # "failed"
AllExited == \A i \in 1..Len(procs) : procs[i].state = "exited"
\* The position of the last event e of the trace, 0 when there is none.
LastIdx(e) ==
    LET I == {i \in 1..Len(trace) : trace[i] = e}
    IN IF I = {} THEN 0 ELSE CHOOSE i \in I : \A j \in I : j <= i
\* What happened after position i.
EventsAfter(i) == {trace[j] : j \in (i + 1)..Len(trace)}
ExpectedOnRetryRuns(n) == IF on_retry # None THEN n ELSE 0
ExpectedWaits(n) == IF wait_f # None THEN n ELSE 0
FailureMsg(stderr) == [fmt |-> "Error running", cwd |-> dir, cmd |-> cmd, stderr |-> stderr]
\* The k-th run of the command is the first that exits with status 0.
FirstSuccessAt(k) ==
    /\ CmdRuns[k].state = "exited"
    /\ CmdRuns[k].rc = 0
    /\ \A j \in 1..(k - 1) : CmdRuns[j].rc # 0

\* C1: check_assert, early success.  When the command first exits with status
\* 0 on its k-th run (1 <= k <= retries), that run is the last process ever
\* launched, the command has been launched k times, there have been k-1
\* sleeps and k-1 on_retry launches (none without on_retry), nothing is slept
\* on or launched after the accepting run, and the call never raises: it
\* ends by returning.
C1_EarlySuccess ==
    (op = "check_assert" /\ retries >= 1) =>
        \A k \in 1..Len(CmdRuns) :
            FirstSuccessAt(k) =>
                /\ k <= retries
                /\ Len(CmdRuns) = k
                /\ Len(sleeps) = k - 1
                /\ Len(OnRetryRuns) = ExpectedOnRetryRuns(k - 1)
                /\ procs[Len(procs)].role = "cmd"
                /\ EventsAfter(LastIdx("exit")) \subseteq
                       {"debug:exited", "debug:final", "assert"}
                /\ outcome.kind # "raise"
                /\ pc = "done" => outcome.kind = "return"

\* A call with retries = 3 and an on_retry command that returned after the
\* second run of the command was the first to exit 0.
C1_Witness ==
    /\ op = "check_assert" /\ pc = "done" /\ retries = 3 /\ on_retry # None
    /\ Len(CmdRuns) = 2 /\ FirstSuccessAt(2)
    /\ Len(sleeps) = 1 /\ Len(OnRetryRuns) = 1
    /\ outcome.kind = "return"

\* C2: check_assert, exhaustion.  When the call has ended, every process was
\* launched and every run of the command exited non-zero (retries >= 1), the
\* command was launched retries times, there were retries-1 sleeps and
\* retries-1 on_retry runs (none without on_retry), and the call raised the
\* assertion failure whose message holds the working directory, the command
\* and the stderr captured last.
C2_Exhaustion ==
    ( /\ op = "check_assert" /\ retries >= 1 /\ pc = "done"
      /\ NoLaunchFailure
      /\ \A i \in 1..Len(CmdRuns) : CmdRuns[i].rc # 0 ) =>
        /\ Len(CmdRuns) = retries
        /\ Len(sleeps) = retries - 1
        /\ Len(OnRetryRuns) = ExpectedOnRetryRuns(retries - 1)
        /\ outcome.kind = "raise"
        /\ outcome.exc = "AssertionFailure"
        /\ outcome.detail = FailureMsg(LastCmdRun.err)
        /\ outcome.detail.cwd = dir /\ outcome.detail.cmd = cmd

\* Three failing runs of the command, with the on_retry command between them.
C2_Witness ==
    /\ op = "check_assert" /\ pc = "done" /\ retries = 3 /\ on_retry # None
    /\ NoLaunchFailure
    /\ Len(CmdRuns) = 3 /\ \A i \in 1..3 : CmdRuns[i].rc # 0
    /\ Len(sleeps) = 2 /\ Len(OnRetryRuns) = 2
    /\ outcome.kind = "raise" /\ outcome.exc = "AssertionFailure"

\* The k-th call of check_f is the first that returns true.
FirstAcceptAt(k) ==
    /\ ~ccalls[k].raised
    /\ ccalls[k].res
    /\ \A j \in 1..(k - 1) : ~ccalls[j].raised /\ ~ccalls[j].res

\* C3: retry, early success.  When check_f is false on the results of the
\* first k-1 calls of task_f and true on the k-th (1 <= k <= retries), task_f
\* has been called k times, wait_f k-1 times (never without wait_f), the last
\* call made is the accepting check, and retry has returned the value of the
\* k-th call of task_f.
C3_RetryEarlySuccess ==
    (op = "retry" /\ retries >= 1) =>
        \A k \in 1..Len(ccalls) :
            FirstAcceptAt(k) =>
                /\ k <= retries
                /\ Len(tcalls) = k
                /\ Len(ccalls) = k
                /\ ccalls[k].arg = tcalls[k].ret
                /\ Len(wcalls) = ExpectedWaits(k - 1)
                /\ LastIdx("wait_f") < LastIdx("task_f")
                /\ trace[Len(trace)] = "check_f"
                /\ pc = "done"
                /\ outcome = Returned(tcalls[k].ret)

\* retry(3, ...) with a wait_f and a predicate other than bool that accepted
\* the third result after two rejected ones.
C3_Witness ==
    /\ op = "retry" /\ pc = "done" /\ retries = 3 /\ wait_f # None
    /\ check_f = "is_zero"
    /\ Len(tcalls) = 3 /\ Len(ccalls) = 3 /\ FirstAcceptAt(3)
    /\ tcalls[1].ret = "1" /\ tcalls[2].ret = "None"
    /\ Len(wcalls) = 2
    /\ outcome.kind = "return"

NoCallbackRaised ==
    /\ \A i \in 1..Len(tcalls) : ~tcalls[i].raised
    /\ \A i \in 1..Len(ccalls) : ~ccalls[i].raised
    /\ \A i \in 1..Len(wcalls) : ~wcalls[i].raised

\* C4: retry, exhaustion.  When the call has ended, no callback raised and
\* check_f was false on every result (retries >= 1), task_f was called retries
\* times, wait_f retries-1 times (never without wait_f) and not after the last
\* call of task_f, and retry raised RetryException naming retries; wait_f is
\* at no time called more than retries-1 times.
C4_RetryExhaustion ==
    /\ (op = "retry" /\ retries >= 1) => Len(wcalls) <= retries - 1
    /\ ( /\ op = "retry" /\ retries >= 1 /\ pc = "done"
         /\ NoCallbackRaised
         /\ \A i \in 1..Len(ccalls) : ~ccalls[i].res ) =>
           /\ Len(tcalls) = retries
           /\ Len(ccalls) = retries
           /\ Len(wcalls) = ExpectedWaits(retries - 1)
           /\ LastIdx("wait_f") < LastIdx("task_f")
           /\ outcome.kind = "raise"
           /\ outcome.exc = "RetryException"
           /\ outcome.detail = retries

\* retry(3, ...) with a wait_f, three rejected results, RetryException.
C4_Witness ==
    /\ op = "retry" /\ pc = "done" /\ retries = 3 /\ wait_f # None
    /\ NoCallbackRaised
    /\ Len(tcalls) = 3 /\ Len(ccalls) = 3 /\ \A i \in 1..3 : ~ccalls[i].res
    /\ Len(wcalls) = 2
    /\ outcome.kind = "raise" /\ outcome.exc = "RetryException"

\* C5: the number of tries in the final log record of check_assert is the
\* number of runs of the command that were made.
C5_LogTriesAreAttempts ==
    \A i \in 1..Len(log) :
        log[i].fmt = "assert: Final result" => log[i].tries = Len(CmdRuns)

\* The statuses of the runs of the command that have exited, in order: all
\* that the environment decides about the command.
Exited(p) == p.state = "exited"
CmdStatuses == [i \in 1..Len(SelectSeq(CmdRuns, Exited)) |-> CmdRuns[i].rc]
\* The attempts check_assert is to make of a command with statuses S, which
\* are all the statuses seen when the call has ended: the loop stops at the
\* first 0 and at the budget.
StopsRightAt(S) ==
    /\ \A j \in 1..(Len(S) - 1) : S[j] # 0
    /\ Len(S) = retries \/ S[Len(S)] = 0
\* How the call is to end after statuses S; last is the last run.
ExpectedOutcome(S, last) ==
    IF S[Len(S)] = 0
    THEN Returned(<<last.out, last.err>>)
    ELSE Raised("AssertionFailure", FailureMsg(last.err))

\* C6: the exit status of the on_retry command never affects check_assert.
\* After an on_retry run has exited, with whatever status, the call goes on
\* to the run of the command of that attempt and that run is the next launch; and the attempts
\* made, the sleeps and the way the call ends are determined by the statuses
\* of the command alone (the loop stops at the first 0 or at the budget, one
\* sleep before every attempt but the first, the outcome that of the last
\* run of the command), whatever the on_retry runs did.
C6_OnRetryStatusIgnored ==
    (op = "check_assert" /\ retries >= 1) =>
        /\ \A i \in 1..Len(procs) :
            (procs[i].role = "on_retry" /\ procs[i].state = "exited") =>
                IF i = Len(procs)
                THEN /\ pc = "ca_gather" \/ (pc = "g_popen" /\ g.role = "cmd")
                     /\ outcome.kind = "none"
                ELSE procs[i + 1].role = "cmd"
        /\ (pc = "done" /\ NoLaunchFailure) =>
            /\ StopsRightAt(CmdStatuses)
            /\ Len(CmdRuns) = Len(CmdStatuses)
            /\ Len(sleeps) = Len(CmdStatuses) - 1
            /\ Len(acalls) = 1
            /\ acalls[1].exitcode = CmdStatuses[Len(CmdStatuses)]
            /\ outcome = ExpectedOutcome(CmdStatuses, LastCmdRun)

\* A call that ended after three attempts between which the on_retry command
\* exited once with 0 and once with a non-zero status.
C6_Witness ==
    /\ op = "check_assert" /\ pc = "done" /\ retries = 3
    /\ Len(OnRetryRuns) = 2 /\ Len(CmdRuns) = 3 /\ NoLaunchFailure
    /\ OnRetryRuns[1].rc # 0 /\ OnRetryRuns[2].rc = 0
    /\ outcome.kind = "raise" /\ outcome.exc = "AssertionFailure"

\* C7: a launch failure is never retried and never suppressed.  A process
\* that could not be launched is the last one the call launches, and in that
\* state the call has ended by raising the launch failure: nothing was slept
\* on, launched or logged after it, the final record of check_assert was not
\* logged and the assertion collaborator was not called.  This holds for a
\* direct call of gather and inside check_assert, for the command and for the
\* on_retry command, with attempts remaining or not.
C7_LaunchFailurePropagates ==
    \A i \in 1..Len(procs) :
        procs[i].state = "failed" =>
            /\ i = Len(procs)
            /\ pc = "done"
            /\ outcome.kind = "raise"
            /\ outcome.exc \in {"OSError", "IndexError"}
            /\ trace[Len(trace)] = "launch_failed"
            /\ acalls = <<>>
            /\ \A j \in 1..Len(log) : log[j].fmt # "assert: Final result"
            /\ log[Len(log)].fmt = "Executing:gather"

\* check_assert with retries = 3 whose on_retry command could not be launched
\* before the second attempt: two attempts were still to come.
C7_Witness ==
    /\ op = "check_assert" /\ retries = 3 /\ pc = "done"
    /\ Len(procs) = 2 /\ Len(sleeps) = 1
    /\ procs[2].role = "on_retry" /\ procs[2].state = "failed"
    /\ ca.it = 2
    /\ outcome.kind = "raise" /\ outcome.exc = "OSError"

\* C8: gather never treats an exit status as a failure.  Whenever a process
\* has exited, gather hands its caller the triple (status, stdout, stderr) of
\* that process; a direct call of gather whose process exited has not raised
\* and ends by returning that triple, whatever the status.
C8_GatherReturnsAnyStatus ==
    /\ (pc \in {"g_return", "ca_assign"}) =>
           /\ procs[Len(procs)].state = "exited"
           /\ gres = Some(<<procs[Len(procs)].rc, procs[Len(procs)].out,
                            procs[Len(procs)].err>>)
    /\ (op = "gather" /\ procs # <<>> /\ procs[1].state = "exited") =>
           /\ Len(procs) = 1
           /\ outcome.kind # "raise"
           /\ pc \in {"g_return", "done"}
           /\ pc = "done" => outcome = Returned(<<procs[1].rc, procs[1].out, procs[1].err>>)

\* A direct call of gather that returned a non-zero status.
C8_Witness ==
    /\ op = "gather" /\ pc = "done"
    /\ Len(procs) = 1 /\ procs[1].state = "exited" /\ procs[1].rc = 2
    /\ outcome.kind = "return" /\ outcome.value[1] = 2

\* C9: what check_assert gives the assertion collaborator, puts in the
\* failure message and returns are the values of the last run of the command:
\* the status asserted on and the stderr of the message are that run's, the
\* pair returned is its (stdout, stderr), and the stderr of a raised failure
\* is its stderr.
C9_LastRunIsUsed ==
    (op = "check_assert") =>
        /\ \A i \in 1..Len(acalls) :
            /\ acalls[i].exitcode = LastCmdRun.rc
            /\ acalls[i].msg.stderr = LastCmdRun.err
        /\ outcome.kind = "return" =>
               outcome.value = <<LastCmdRun.out, LastCmdRun.err>>
        /\ (outcome.kind = "raise" /\ outcome.exc = "AssertionFailure") =>
               outcome.detail.stderr = LastCmdRun.err

\* A failed call whose last run of the command wrote another stderr than the
\* first run and than the on_retry run before it.
C9_Witness ==
    /\ op = "check_assert" /\ pc = "done"
    /\ Len(CmdRuns) = 2 /\ Len(OnRetryRuns) = 1 /\ NoLaunchFailure
    /\ CmdRuns[1].err # CmdRuns[2].err
    /\ OnRetryRuns[1].err # CmdRuns[2].err
    /\ outcome.kind = "raise" /\ outcome.exc = "AssertionFailure"
    /\ outcome.detail.stderr = CmdRuns[2].err

IsDebug(e) == e \in {"debug:executing", "debug:exited", "debug:retry", "debug:final"}
NotDebug(e) == ~IsDebug(e)

\* C10: check_assert with retries = 1 is a bare run-and-check.  There is never
\* a sleep, a retry notice or an on_retry run, whatever pollrate and on_retry
\* are; and when the call has ended and the command could be launched, what
\* happened, log records aside, is one launch of the command, its exit and
\* the assertion on that run's status, which raised the failure for a
\* non-zero status and otherwise let that run's (stdout, stderr) be returned.
C10_SingleAttempt ==
    (op = "check_assert" /\ retries = 1) =>
        /\ sleeps = <<>>
        /\ OnRetryRuns = <<>>
        /\ Len(procs) <= 1
        /\ LastIdx("debug:retry") = 0
        /\ (pc = "done" /\ NoLaunchFailure) =>
            /\ SelectSeq(trace, NotDebug) = <<"launch", "exit", "assert">>
            /\ procs[1].role = "cmd" /\ procs[1].args = CmdList(cmd)
            /\ acalls = <<[exitcode |-> procs[1].rc, msg |-> FailureMsg(procs[1].err)]>>
            /\ outcome = IF procs[1].rc # 0
                         THEN Raised("AssertionFailure", FailureMsg(procs[1].err))
                         ELSE Returned(<<procs[1].out, procs[1].err>>)

\* check_assert(cmd, retries=1, pollrate=60, on_retry="c") on a command that
\* exits non-zero.
C10_Witness ==
    /\ op = "check_assert" /\ pc = "done" /\ retries = 1
    /\ pollrate = 60 /\ on_retry # None
    /\ Len(procs) = 1 /\ procs[1].state = "exited" /\ procs[1].rc # 0
    /\ sleeps = <<>>
    /\ outcome.kind = "raise" /\ outcome.exc = "AssertionFailure"

\* C11: retry with retries = 0.  task_f, check_f and wait_f are never called,
\* nothing is returned, and the call ends, with nothing done before, by
\* raising RetryException (naming 0).
C11_RetryZero ==
    (op = "retry" /\ retries = 0) =>
        /\ tcalls = <<>> /\ ccalls = <<>> /\ wcalls = <<>>
        /\ trace = <<>>
        /\ pc \in {"r_for", "r_raise", "done"}
        /\ outcome.kind # "return"
        /\ pc = "done" => outcome = Raised("RetryException", 0)

\* retry(0, ...) has raised RetryException.
C11_Witness ==
    /\ op = "retry" /\ retries = 0 /\ pc = "done"
    /\ tcalls = <<>> /\ ccalls = <<>> /\ wcalls = <<>>
    /\ outcome.kind = "raise" /\ outcome.exc = "RetryException"

\* C12: concurrent gather calls of two contexts do not interfere.  In every
\* interleaving of the two calls, of the other context's changes of its
\* directory and of changes of the directory of the process, each process is
\* launched in the directory its own context returned when its gather call
\* read it, with the arguments of that call, and each call returns what its
\* own process did.
C12_NoInterference ==
    /\ \A i \in 1..Len(procs) :
        IF procs[i].role = "other"
        THEN /\ i = other.proc \/ procs[i].state = "failed"
             /\ procs[i].cwd = other.cwd
             /\ procs[i].cwd = other.dir
             /\ procs[i].args = other.cmd_list
        ELSE /\ i = g.proc \/ procs[i].state = "failed"
             /\ Len(dreads) = 1
             /\ procs[i].cwd = dreads[1].value
             /\ procs[i].cwd = dir
             /\ procs[i].args = g.cmd_list
    /\ other.launched # "" =>
        /\ other.launched = other.cwd
        /\ other.launched = other.dir
    \* each call returns what its own process did
    /\ (pc = "done" /\ outcome.kind = "return") =>
        outcome.value = <<procs[g.proc].rc, procs[g.proc].out, procs[g.proc].err>>
    /\ other.outcome.kind = "return" =>
        other.outcome.value = <<procs[other.proc].rc, procs[other.proc].out,
                                 procs[other.proc].err>>

\* Both calls have returned, each what its own process did, the two processes
\* having run in different directories and ended differently, and the
\* directory of the process is not the one of this context's child.
C12_Witness ==
    /\ op = "gather" /\ pc = "done" /\ other.pc = "done"
    /\ outcome.kind = "return" /\ other.outcome.kind = "return"
    /\ outcome.value # other.outcome.value
    /\ Len(procs) = 2
    /\ procs[g.proc].cwd # procs[other.proc].cwd
    /\ other.launched = other.dir /\ procs[g.proc].cwd = dir
    /\ oscwd # procs[g.proc].cwd

Falsy == {"None", "False", "0", "''"}

\* C13: retry without a check_f judges an attempt by the truth value of its
\* result.  An empty, zero, false or null result is a failed attempt: it is
\* not returned, and a call that ends on it (no callback having raised) has
\* used up its attempts and raises RetryException.  Any other result is
\* accepted: it is the last result looked at and the call has returned it.
C13_DefaultIsTruthiness ==
    (op = "retry" /\ check_f = DefaultCheckF) =>
        /\ \A i \in 1..Len(ccalls) :
            ~ccalls[i].raised =>
                IF ccalls[i].arg \in Falsy
                THEN /\ ~ccalls[i].res
                     /\ i = Len(ccalls) => outcome.kind # "return"
                     /\ (i = Len(ccalls) /\ pc = "done" /\ NoCallbackRaised) =>
                            /\ i = retries
                            /\ outcome = Raised("RetryException", retries)
                ELSE /\ ccalls[i].res
                     /\ i = Len(ccalls)
                     /\ pc = "done"
                     /\ outcome = Returned(ccalls[i].arg)
        /\ outcome.kind = "return" => outcome.value \notin Falsy

\* retry(3, task_f) whose task returned '', then 0, then 'ok'.
C13_Witness ==
    /\ op = "retry" /\ check_f = DefaultCheckF /\ retries = 3 /\ pc = "done"
    /\ Len(tcalls) = 3 /\ Len(ccalls) = 3
    /\ tcalls[1].ret = "''" /\ tcalls[2].ret = "0" /\ tcalls[3].ret = "'ok'"
    /\ outcome = Returned("'ok'")

\* One run by gather, one retry step, and what n attempts look like.
RunEvents == <<"debug:executing", "launch", "exit", "debug:exited">>
RetryStepEvents ==
    <<"debug:retry", "sleep">> \o (IF on_retry # None THEN RunEvents ELSE <<>>)
RECURSIVE AttemptEvents(_)
AttemptEvents(n) ==
    IF n <= 0 THEN <<>>
    ELSE IF n = 1 THEN RunEvents
    ELSE AttemptEvents(n - 1) \o RetryStepEvents \o RunEvents
FinalEvents == <<"debug:final", "assert">>
IsPrefix(a, b) == Len(a) <= Len(b) /\ SubSeq(b, 1, Len(a)) = a
\* The trace, a launch that failed read as a launch.
LaunchesTrace ==
    [i \in 1..Len(trace) |-> IF trace[i] = "launch_failed" THEN "launch" ELSE trace[i]]
\* The role of the i-th process launched by check_assert.
ExpectedRole(i) ==
    IF on_retry # None /\ i % 2 = 0 THEN "on_retry" ELSE "cmd"
RetryNotices == SelectSeq(log, LAMBDA r : r.fmt = "assert: Failed")

\* C14: the steps of check_assert are sequential and ordered.  What has
\* happened is at all times a beginning of: the first run of the command
\* (nothing before it), then for each further attempt the retry notice, the
\* sleep, the on_retry run from launch to exit (when there is an on_retry)
\* and the run of the command from launch to exit; the final record and the
\* assertion come only after the exit of a run of the command.  The i-th
\* notice reports i failures, every sleep lasts pollrate, and the processes
\* launched are the command and the on_retry command in that order.
C14_StepsInOrder ==
    (op = "check_assert" /\ retries >= 1) =>
        /\ \/ IsPrefix(LaunchesTrace, AttemptEvents(retries))
           \/ \E n \in 1..retries :
                /\ n = Len(CmdRuns)
                /\ IsPrefix(AttemptEvents(n), LaunchesTrace)
                /\ IsPrefix(LaunchesTrace, AttemptEvents(n) \o FinalEvents)
        /\ \A i \in 1..Len(procs) : procs[i].role = ExpectedRole(i)
        /\ \A i \in 1..Len(sleeps) : sleeps[i] = pollrate
        /\ \A i \in 1..Len(RetryNotices) : RetryNotices[i].times = i

\* Three failed attempts with the on_retry command between them, all done.
C14_Witness ==
    /\ op = "check_assert" /\ retries = 3 /\ on_retry # None /\ pc = "done"
    /\ trace = AttemptEvents(3) \o FinalEvents
    /\ Len(trace) = 26
    /\ Len(sleeps) = 2 /\ Len(procs) = 5

\* C15: wait_f is called only between a failed attempt and the next one, with
\* the index of the attempt that failed.  The i-th call of wait_f has the
\* argument i-1 and follows at once the i-th call of check_f, which returned
\* false; and whatever follows a call of wait_f is the next call of task_f.
C15_WaitArguments ==
    (op = "retry") =>
        /\ \A i \in 1..Len(wcalls) :
            /\ wcalls[i].arg = i - 1
            /\ i <= Len(ccalls) /\ ~ccalls[i].raised /\ ~ccalls[i].res
            /\ i < retries
        /\ \A j \in 1..Len(trace) :
            trace[j] = "wait_f" =>
                /\ j > 2 /\ trace[j - 1] = "check_f" /\ trace[j - 2] = "task_f"
                /\ j < Len(trace) => trace[j + 1] = "task_f"
        /\ (pc = "done" /\ outcome.kind = "return") =>
                Len(wcalls) = ExpectedWaits(Len(tcalls) - 1)

\* retry(3, ...) with results rejected, rejected, accepted: wait_f(0),
\* wait_f(1) and three calls of task_f.
C15_Witness ==
    /\ op = "retry" /\ retries = 3 /\ pc = "done" /\ outcome.kind = "return"
    /\ Len(tcalls) = 3
    /\ Len(wcalls) = 2 /\ wcalls[1].arg = 0 /\ wcalls[2].arg = 1
    /\ trace = <<"task_f", "check_f", "wait_f", "task_f", "check_f", "wait_f",
                 "task_f", "check_f">>

GatherReads == SelectSeq(dreads, LAMBDA r : r.by = "gather")
OwnReads == SelectSeq(dreads, LAMBDA r : r.by = "check_assert")
ExecutingRecords == SelectSeq(log, LAMBDA r : r.fmt = "Executing:gather")
ExitedRecords == SelectSeq(log, LAMBDA r : r.fmt = "Process exited")
\* The gather calls begun so far: one per launch, and the one about to launch.
GatherCalls == Len(procs) + (IF pc = "g_popen" THEN 1 ELSE 0)

C16_ReadOnceAndUse ==
    /\ Len(GatherReads) = GatherCalls
    /\ Len(ExecutingRecords) = GatherCalls
    /\ \A i \in 1..Len(GatherReads) :
        /\ GatherReads[i].launches = i - 1
        /\ GatherReads[i].value = dir
        /\ ExecutingRecords[i].cwd = GatherReads[i].value
    /\ \A i \in 1..Len(procs) : procs[i].cwd = GatherReads[i].value
    /\ \A i \in 1..Len(ExitedRecords) : ExitedRecords[i].cwd = GatherReads[i].value
    /\ Len(OwnReads) <= 1
    /\ OwnReads # <<>> => op = "check_assert" /\ pc = "done"
    /\ op = "retry" => dreads = <<>>

\* C16: gather reads the directory context once per call, before the launch,
\* and uses that value as the child's working directory and in both of its
\* log records (whatever the directory of the process is); check_assert reads
\* it only once more, for its message, and retry never; and no step of
\* gather, check_assert or retry changes the directory context.
C16_DirectoryContextFrame ==
    /\ []C16_ReadOnceAndUse
    /\ [][dir' = dir]_vars

\* A check_assert call that ended after five launches, the directory of the
\* process being another one than the context's.
C16_Witness ==
    /\ op = "check_assert" /\ pc = "done" /\ Len(procs) = 5
    /\ Len(GatherReads) = 5 /\ Len(OwnReads) = 1
    /\ oscwd # dir /\ procs[5].cwd = dir

\* C17: gather logs two debug records around the launch, and nothing is
\* logged at another level.  Every record of gather, check_assert and retry
\* is a debug record and retry logs none; the i-th launch is preceded at once
\* by the record of the directory and the argument list it is launched with,
\* and the exit of the i-th process is followed at once by the record of its
\* status, stdout and stderr: two records for every process that exited, one
\* for a process that is running or could not be launched.
C17_TwoDebugRecords ==
    /\ \A i \in 1..Len(log) : log[i].level = "debug"
    /\ op = "retry" => log = <<>>
    /\ Len(ExecutingRecords) = GatherCalls
    /\ Len(ExitedRecords) = Len(SelectSeq(procs, Exited))
    /\ \A i \in 1..Len(procs) :
        /\ ExecutingRecords[i].cwd = procs[i].cwd
        /\ ExecutingRecords[i].cmd_list = procs[i].args
        /\ procs[i].state = "exited" =>
            /\ ExitedRecords[i].rc = procs[i].rc
            /\ ExitedRecords[i].out = procs[i].out
            /\ ExitedRecords[i].err = procs[i].err
            /\ ExitedRecords[i].cmd_list = procs[i].args
    /\ \A j \in 1..Len(trace) :
        /\ trace[j] \in {"launch", "launch_failed"} =>
               j > 1 /\ trace[j - 1] = "debug:executing"
        /\ (trace[j] = "debug:executing" /\ j < Len(trace)) =>
               trace[j + 1] \in {"launch", "launch_failed"}
        /\ trace[j] = "exit" =>
               /\ j > 1 /\ trace[j - 1] = "launch"
               /\ j < Len(trace) /\ trace[j + 1] = "debug:exited"
        /\ trace[j] = "debug:exited" => j > 1 /\ trace[j - 1] = "exit"

\* A direct call of gather that returned: exactly the two records.
C17_Witness ==
    /\ op = "gather" /\ pc = "done" /\ outcome.kind = "return"
    /\ Len(log) = 2
    /\ log[1].fmt = "Executing:gather" /\ log[2].fmt = "Process exited"
    /\ log[1].level = "debug" /\ log[2].level = "debug"
    /\ trace = RunEvents

\* C18: check_assert with retries <= 0.  No process is launched, nothing is
\* slept on, nothing is logged and the assertion collaborator is not called;
\* result, stdout and stderr are never assigned; the call returns nothing
\* and raises no assertion failure: it ends in the unbound-variable error.
C18_NoAttemptsUnbound ==
    (op = "check_assert" /\ retries <= 0) =>
        /\ procs = <<>> /\ sleeps = <<>> /\ log = <<>> /\ acalls = <<>>
        /\ trace = <<>> /\ dreads = <<>>
        /\ ca.result = Unbound /\ ca.stdout = Unbound /\ ca.stderr = Unbound
        /\ ca.try_num = Unbound
        /\ outcome.kind # "return"
        /\ pc \in {"ca_for", "ca_final", "done"}
        /\ pc = "done" => outcome = Raised("UnboundLocalError", <<>>)

\* check_assert(cmd, retries=0) has ended.
C18_Witness ==
    /\ op = "check_assert" /\ retries = 0 /\ pc = "done"
    /\ procs = <<>> /\ sleeps = <<>>
    /\ outcome.kind = "raise" /\ outcome.exc = "UnboundLocalError"

CallbackRaises ==
    Len(SelectSeq(tcalls, LAMBDA c : c.raised))
    + Len(SelectSeq(ccalls, LAMBDA c : c.raised))
    + Len(SelectSeq(wcalls, LAMBDA c : c.raised))

\* C19: retry catches nothing.  A call of task_f, check_f or wait_f that
\* raised is the last call retry made: the call has ended by raising that
\* exception, not RetryException, also when attempts were left.
C19_RetryCatchesNothing ==
    (op = "retry") =>
        /\ CallbackRaises <= 1
        /\ \A i \in 1..Len(tcalls) :
            tcalls[i].raised =>
                /\ i = Len(tcalls) /\ Len(ccalls) = i - 1
                /\ trace[Len(trace)] = "task_f"
                /\ pc = "done" /\ outcome = Raised("TaskError", <<>>)
        /\ \A i \in 1..Len(ccalls) :
            ccalls[i].raised =>
                /\ i = Len(ccalls) /\ Len(tcalls) = i
                /\ trace[Len(trace)] = "check_f"
                /\ pc = "done" /\ outcome = Raised("CheckError", <<>>)
        /\ \A i \in 1..Len(wcalls) :
            wcalls[i].raised =>
                /\ i = Len(wcalls) /\ Len(tcalls) = i /\ Len(ccalls) = i
                /\ trace[Len(trace)] = "wait_f"
                /\ pc = "done" /\ outcome = Raised("WaitError", <<>>)
        /\ (outcome.kind = "raise" /\ outcome.exc = "RetryException") =>
               CallbackRaises = 0

\* retry(3, ...) whose task raised on its second attempt.
C19_Witness ==
    /\ op = "retry" /\ retries = 3 /\ pc = "done"
    /\ Len(tcalls) = 2 /\ tcalls[2].raised /\ Len(wcalls) = 1
    /\ rt.it = 2
    /\ outcome.kind = "raise" /\ outcome.exc = "TaskError"

\* C20 as stated: at most 2*retries-1 launches and retries-1 sleeps in
\* check_assert, at most retries calls of task_f and retries-1 calls of
\* wait_f in retry.
C20_BoundsAsStated ==
    /\ op = "check_assert" =>
        /\ Len(procs) <= 2 * retries - 1
        /\ Len(sleeps) <= retries - 1
    /\ op = "retry" =>
        /\ Len(tcalls) <= retries
        /\ Len(wcalls) <= retries - 1

Max0(n) == IF n > 0 THEN n ELSE 0

C20_Bounds ==
    /\ op = "check_assert" =>
        /\ Len(procs) <= Max0(2 * retries - 1)
        /\ Len(CmdRuns) <= Max0(retries)
        /\ Len(sleeps) <= Max0(retries - 1)
        /\ ca.it <= Max0(retries)
    /\ op = "retry" =>
        /\ Len(tcalls) <= Max0(retries)
        /\ Len(wcalls) <= Max0(retries - 1)
        /\ rt.it <= Max0(retries)

\* C20: bounded termination.  Every call ends, by returning or raising, when
\* every step that can be taken is taken; check_assert launches at most
\* 2*retries-1 processes and sleeps at most retries-1 times, retry calls
\* task_f at most retries times and wait_f at most retries-1 times, each of
\* these bounds read as 0 when it is negative (retries <= 0); no loop begins
\* an attempt beyond retries.
C20_BoundedTermination ==
    /\ []C20_Bounds
    /\ <>(pc = "done")

\* An exhausted check_assert call at its bounds: retries = 3, five launches,
\* two sleeps.
C20_Witness ==
    /\ op = "check_assert" /\ retries = 3 /\ pc = "done"
    /\ Len(procs) = 5 /\ Len(sleeps) = 2 /\ ca.it = 3
====
